---- MODULE Spec2Model ----
(***************************************************************************)
(* Model of the I2C display interface adapter (i2c/src/lib.rs).            *)
(*                                                                         *)
(* I2CInterface owns a bus handle, a device address and the data-mode      *)
(* control byte.  send_commands and send_data are async operations: each   *)
(* suspends at every i2c.write(..).await.  The bus is modelled by `log`,   *)
(* the sequence of writes issued by the call in progress (or by the last   *)
(* call once it has finished), each with the result the bus gave it.       *)
(* A Rust panic (slice index out of range) halts the program.              *)
(***************************************************************************)
EXTENDS Integers, Sequences, FiniteSets, TLC

\* ---------------------------------------------------------------- bounds
\* longest payload handed to send_data / send_commands by the environment
MaxLen == 33
MaxCmdLen == 9
\* payload contents: byte j of payload `seed` is (seed + 7*j) mod 256
Seeds == {1, 130}
\* values given to I2CInterface::new
Addrs == {60, 61}
DataBytes == {64, 128}

\* ---------------------------------------------------------------- helpers
Min(a, b) == IF a < b THEN a ELSE b

\* the bytes the caller passes in
MkPayload(seed, n) == [j \in 1..n |-> (seed + 7 * (j - 1)) % 256]

\* DataFormat variants the adapter distinguishes: U8(slice), U8Iter(iter),
\* and every other variant (the `_` arm)
Formats == {"U8", "U8Iter", "Other"}

CmdBufLenDoubled == 8 + 8
\* [u8; 8] in send_commands, [u8; 17] in send_data
CmdBufLen == 8
DataBufLen == 17
\* slice.chunks(16)
ChunkSize == 16

\* Rust's bounds check of buf[lo..=hi] on a buffer of length buflen
RangeInclOk(buflen, lo, hi) == lo <= hi + 1 /\ hi + 1 <= buflen

\* buf[lo..=hi] as the byte sequence handed to the bus (buf indexed from 0)
SliceIncl(buf, lo, hi) == [k \in 1..(hi - lo + 1) |-> buf[lo + k - 1]]

\* buf[lo..lo+len(src)].copy_from_slice(src)
CopyInto(buf, lo, src) ==
  [k \in DOMAIN buf |->
     IF k >= lo /\ k < lo + Len(src) THEN src[k - lo + 1] ELSE buf[k]]

\* let mut writebuf: [u8; 8] = [0; 8];
NewCmdBuf == [k \in 0..(CmdBufLen - 1) |-> 0]

NewDataBufNoPrefix(db) == [k \in 0..(DataBufLen - 1) |-> 0]
\* let mut writebuf = [0; 17]; writebuf[0] = self.data_byte;
NewDataBuf(db) == [k \in 0..(DataBufLen - 1) |-> IF k = 0 THEN db ELSE 0]

CmdArmIterAsU8(f) == IF f \in {"U8", "U8Iter"} THEN "U8" ELSE "Other"
\* match cmds { DataFormat::U8(slice) => .., _ => Err(..) }
CmdArm(f) == IF f = "U8" THEN "U8" ELSE "Other"

DataArmOtherAsU8(f) == IF f = "U8Iter" THEN "U8Iter" ELSE "U8"
\* match buf { DataFormat::U8(slice) => .., DataFormat::U8Iter(iter) => .., _ => Err(..) }
DataArm(f) == IF f \in {"U8", "U8Iter"} THEN f ELSE "Other"

CmdWriteEndExcl(slen) == slen - 1
\* inclusive end of &writebuf[..=slice.len()]
CmdWriteEnd(slen) == slen

\* the next element of slice.chunks(16), `pos` bytes already consumed
Chunk(slice, pos) == SubSeq(slice, pos + 1, Min(pos + ChunkSize, Len(slice)))

U8WriteEndExcl(chunk_len) == chunk_len - 1
U8WriteEndWholeBuf(chunk_len) == DataBufLen - 1
\* inclusive end of &writebuf[0..=chunk_len]
U8WriteEnd(chunk_len) == chunk_len

\* if i == len
FrameFull(idx, len) == idx = len

\* inclusive end of &writebuf[0..=len]
FullWriteEnd(len) == len

\* inclusive end of &writebuf[0..=i]
FlushEnd(idx) == idx

NeedFlushAlways(idx) == idx >= 1
\* if i > 1
NeedFlush(idx) == idx > 1

AbortOnErrorNever(ok) == FALSE
\* .map_err(|_| DisplayError::BusWriteError)?  : return early on Err
AbortOnError(ok) == ~ok

\* ---------------------------------------------------------------- state
VARIABLES
  addr,       \* self.addr
  data_byte,  \* self.data_byte
  pc,         \* position of the single flow of control
  op,         \* operation of the current / last call
  fmt,        \* DataFormat variant of the current / last call
  payload,    \* bytes of the current / last call (slice, or what iter yields)
  pos,        \* payload bytes consumed so far (chunks / iter position)
  writebuf,   \* local frame buffer of the call in progress
  i,          \* local fill index of the U8Iter arm
  log,        \* bus writes issued by the current / last call
  result,     \* outcome of the last call
  ctor,       \* the addr and data_byte arguments I2CInterface::new was given
  prev        \* outcome of the call before the current / last one

vars == <<addr, data_byte, pc, op, fmt, payload, pos, writebuf, i, log, result,
          ctor, prev>>

NoBuf == <<>>

IssueToDataByte(bytes) == [addr |-> data_byte, bytes |-> bytes, res |-> "pending"]
\* self.i2c.write(self.addr, bytes) has been started and not yet answered
Issue(bytes) == [addr |-> addr, bytes |-> bytes, res |-> "pending"]

\* the bus answers the outstanding (last) write
Answer(l, ok) ==
  [l EXCEPT ![Len(l)].res = IF ok THEN "ok" ELSE "err"]

Init ==
  /\ ctor \in [addr : Addrs, data_byte : DataBytes]
  /\ addr = ctor.addr
  /\ data_byte = ctor.data_byte
  /\ prev = "none"
  /\ pc = "idle"
  /\ op = "none"
  /\ fmt = "none"
  /\ payload = <<>>
  /\ pos = 0
  /\ writebuf = NoBuf
  /\ i = 0
  /\ log = <<>>
  /\ result = "none"

ReturnKeepLocals(r, l) ==
  /\ pc' = "idle"
  /\ result' = r
  /\ log' = l
  /\ UNCHANGED <<writebuf, i>>
\* the call returns r; its locals are dropped
Return(r, l) ==
  /\ pc' = "idle"
  /\ result' = r
  /\ log' = l
  /\ writebuf' = NoBuf
  /\ i' = 0

\* a slice range check failed: panic
Panic(l) ==
  /\ pc' = "panicked"
  /\ result' = "panic"
  /\ log' = l
  /\ writebuf' = NoBuf
  /\ i' = 0

\* ---------------------------------------------------------------- send_commands
SendCommands(f, slice) ==
  /\ pc = "idle"
  /\ op' = "send_commands"
  /\ fmt' = f
  /\ payload' = slice
  /\ pos' = 0
  /\ prev' = result
  /\ UNCHANGED <<addr, data_byte, ctor>>
  /\ IF CmdArm(f) = "U8"
       THEN IF RangeInclOk(CmdBufLen, 1, Len(slice))
                 /\ RangeInclOk(CmdBufLen, 0, CmdWriteEnd(Len(slice)))
              THEN LET buf == CopyInto(NewCmdBuf, 1, slice) IN
                   /\ writebuf' = buf
                   /\ log' = <<Issue(SliceIncl(buf, 0, CmdWriteEnd(Len(slice))))>>
                   /\ pc' = "cmd_await"
                   /\ result' = "none"
                   /\ i' = 0
              ELSE Panic(<<>>)
       ELSE Return("DataFormatNotImplemented", <<>>)

\* ---------------------------------------------------------------- send_data, U8 arm
\* one iteration of `for c in slice.chunks(16)` up to its .await
U8IssueChunk(buf, slice, p, l) ==
  LET c == Chunk(slice, p)
      chunk_len == Len(c)
  IN IF RangeInclOk(DataBufLen, 1, chunk_len)
          /\ RangeInclOk(DataBufLen, 0, U8WriteEnd(chunk_len))
       THEN LET nbuf == CopyInto(buf, 1, c) IN
            /\ writebuf' = nbuf
            /\ log' = Append(l, Issue(SliceIncl(nbuf, 0, U8WriteEnd(chunk_len))))
            /\ pos' = p + chunk_len
            /\ pc' = "u8_await"
            /\ result' = "none"
            /\ i' = 0
       ELSE /\ Panic(l)
            /\ pos' = p

SendData(f, bytes) ==
  /\ pc = "idle"
  /\ op' = "send_data"
  /\ fmt' = f
  /\ payload' = bytes
  /\ prev' = result
  /\ UNCHANGED <<addr, data_byte, ctor>>
  /\ IF DataArm(f) = "U8"
       THEN IF bytes = <<>>
              THEN /\ Return("Ok", <<>>)
                   /\ pos' = 0
              ELSE U8IssueChunk(NewDataBuf(data_byte), bytes, 0, <<>>)
       ELSE IF DataArm(f) = "U8Iter"
              THEN /\ writebuf' = NewDataBuf(data_byte)
                   /\ i' = 1
                   /\ pos' = 0
                   /\ log' = <<>>
                   /\ pc' = "iter_loop"
                   /\ result' = "none"
              ELSE /\ Return("DataFormatNotImplemented", <<>>)
                   /\ pos' = 0

\* ---------------------------------------------------------------- send_data, U8Iter arm
\* one step of `for byte in iter.into_iter()`, or the code after the loop
\* when the iterator is exhausted
IterNext ==
  /\ pc = "iter_loop"
  /\ UNCHANGED <<addr, data_byte, ctor, prev, op, fmt, payload>>
  /\ IF pos < Len(payload)
       THEN \* writebuf[i] = byte; i += 1;
            IF i >= DataBufLen
              THEN /\ Panic(log)
                   /\ pos' = pos
              ELSE LET buf == [writebuf EXCEPT ![i] = payload[pos + 1]]
                       ni == i + 1
                   IN /\ pos' = pos + 1
                      /\ IF FrameFull(ni, DataBufLen)
                           THEN IF RangeInclOk(DataBufLen, 0, FullWriteEnd(DataBufLen))
                                  THEN /\ writebuf' = buf
                                       /\ i' = ni
                                       /\ log' = Append(log,
                                            Issue(SliceIncl(buf, 0, FullWriteEnd(DataBufLen))))
                                       /\ pc' = "iter_await_full"
                                       /\ result' = "none"
                                  ELSE Panic(log)
                           ELSE /\ writebuf' = buf
                                /\ i' = ni
                                /\ UNCHANGED <<log, pc, result>>
       ELSE /\ pos' = pos
            /\ IF NeedFlush(i)
                 THEN IF RangeInclOk(DataBufLen, 0, FlushEnd(i))
                        THEN /\ log' = Append(log, Issue(SliceIncl(writebuf, 0, FlushEnd(i))))
                             /\ pc' = "iter_await_flush"
                             /\ UNCHANGED <<writebuf, i, result>>
                        ELSE Panic(log)
                 ELSE Return("Ok", log)

\* ---------------------------------------------------------------- the bus answers
\* the outstanding i2c.write(..).await completes with Ok (ok) or Err, and
\* the suspended call resumes
WriteDone(ok) ==
  /\ pc \in {"cmd_await", "u8_await", "iter_await_full", "iter_await_flush"}
  /\ UNCHANGED <<addr, data_byte, ctor, prev, op, fmt, payload>>
  /\ LET l == Answer(log, ok) IN
     CASE pc = "cmd_await" ->
            /\ Return(IF ok THEN "Ok" ELSE "BusWriteError", l)
            /\ pos' = pos
       [] pc = "u8_await" ->
            IF AbortOnError(ok)
              THEN /\ Return("BusWriteError", l)
                   /\ pos' = pos
              ELSE IF pos < Len(payload)
                     THEN U8IssueChunk(writebuf, payload, pos, l)
                     ELSE /\ Return("Ok", l)
                          /\ pos' = pos
       [] pc = "iter_await_full" ->
            IF AbortOnError(ok)
              THEN /\ Return("BusWriteError", l)
                   /\ pos' = pos
              ELSE /\ i' = 1
                   /\ log' = l
                   /\ pc' = "iter_loop"
                   /\ UNCHANGED <<writebuf, pos, result>>
       [] pc = "iter_await_flush" ->
            /\ IF AbortOnError(ok)
                 THEN Return("BusWriteError", l)
                 ELSE Return("Ok", l)
            /\ pos' = pos

\* ---------------------------------------------------------------- specification
Next ==
  \/ \E f \in Formats, s \in Seeds, n \in 0..MaxCmdLen : SendCommands(f, MkPayload(s, n))
  \/ \E f \in Formats, s \in Seeds, n \in 0..MaxLen : SendData(f, MkPayload(s, n))
  \/ IterNext
  \/ \E ok \in BOOLEAN : WriteDone(ok)

Spec == Init /\ [][Next]_vars

TypeOK ==
  /\ ctor \in [addr : Addrs, data_byte : DataBytes]
  /\ prev \in {"none", "Ok", "BusWriteError", "DataFormatNotImplemented"}
  /\ addr \in Addrs
  /\ data_byte \in DataBytes
  /\ pc \in {"idle", "cmd_await", "u8_await", "iter_loop",
             "iter_await_full", "iter_await_flush", "panicked"}
  /\ op \in {"none", "send_commands", "send_data"}
  /\ fmt \in Formats \cup {"none"}
  /\ pos \in 0..Len(payload)
  /\ result \in {"none", "Ok", "BusWriteError", "DataFormatNotImplemented", "panic"}
  /\ \A k \in 1..Len(log) : log[k].res \in {"pending", "ok", "err"}

\* ---------------------------------------------------------------- properties
\* the call has returned to its caller
Done == pc = "idle" /\ op # "none"
\* the call has returned or panicked
Ended == pc \in {"idle", "panicked"} /\ op # "none"

AllOk(l) == \A k \in 1..Len(l) : l[k].res = "ok"
NoErr(l) == \A k \in 1..Len(l) : l[k].res # "err"

CeilDiv(n, d) == (n + d - 1) \div d

\* the bytes of a write after its first (prefix) byte
PayloadPart(bytes) == SubSeq(bytes, 2, Len(bytes))

\* the payload parts of the writes of l, concatenated in issue order
RECURSIVE ConcatParts(_)
ConcatParts(l) ==
  IF l = <<>> THEN <<>>
  ELSE PayloadPart(Head(l).bytes) \o ConcatParts(Tail(l))

\* the byte sequences of the writes of l, in issue order
Frames(l) == [k \in 1..Len(l) |-> l[k].bytes]

\* the frames [prefix] ++ chunk of the consecutive 16-byte chunks of slice
ChunkFrames(slice, prefix) ==
  [k \in 1..CeilDiv(Len(slice), ChunkSize) |->
     <<prefix>> \o Chunk(slice, (k - 1) * ChunkSize)]

\* C1: a send_data call on a contiguous buffer of length n whose writes all
\* succeed issues ceil(n/16) writes (none for n = 0), and the bytes after the
\* first byte of each write, concatenated in issue order, are the buffer.
C1_BufferChunking ==
  (Ended /\ op = "send_data" /\ fmt = "U8" /\ AllOk(log)) =>
     /\ result = "Ok"
     /\ Len(log) = CeilDiv(Len(payload), 16)
     /\ ConcatParts(log) = payload

C1_Witness ==
  /\ Done /\ op = "send_data" /\ fmt = "U8" /\ result = "Ok"
  /\ Len(log) = 3 /\ Len(payload) % 16 # 0

\* C2: a send_data call on a lazy sequence issues the same sequence of bus
\* writes (same count, same bytes) as a send_data call on a contiguous buffer
\* holding the same bytes: the frames [data_byte] ++ chunk of its 16-byte chunks.
C2_LazySameAsBuffer ==
  (Ended /\ op = "send_data" /\ fmt = "U8Iter" /\ NoErr(log)) =>
     Frames(log) = ChunkFrames(payload, data_byte)

\* the U8 arm issues exactly the frames C2 compares the lazy arm with
U8ArmFrames ==
  (Ended /\ op = "send_data" /\ fmt = "U8" /\ AllOk(log)) =>
     Frames(log) = ChunkFrames(payload, data_byte)

\* C3: send_commands on a contiguous payload of length L <= 7 issues exactly
\* one write, of length 1 + L, whose first byte is 0x00 and whose other bytes
\* are the payload; it returns Ok if the write succeeds and BusWriteError if
\* the write fails.
C3_CommandFrame ==
  (op = "send_commands" /\ fmt = "U8" /\ Len(payload) <= 7) =>
     /\ pc \in {"cmd_await", "idle"}
     /\ Len(log) = 1
     /\ Len(log[1].bytes) = 1 + Len(payload)
     /\ log[1].bytes[1] = 0
     /\ PayloadPart(log[1].bytes) = payload
     /\ pc = "cmd_await" => log[1].res = "pending" /\ result = "none"
     /\ pc = "idle" =>
          \/ log[1].res = "ok" /\ result = "Ok"
          \/ log[1].res = "err" /\ result = "BusWriteError"

C3_Witness ==
  /\ Done /\ op = "send_commands" /\ fmt = "U8" /\ Len(payload) = 7
  /\ result = "BusWriteError"

\* C4: in a send_data call, no write is issued after a write that failed (or
\* that is still outstanding); a call in which the k-th write failed returns
\* BusWriteError with exactly k writes issued, the first k-1 of them
\* successful; a call returns Ok only if all its writes succeeded.
C4_FirstFailureAborts ==
  op = "send_data" =>
     /\ \A k \in 1..(Len(log) - 1) : log[k].res = "ok"
     /\ Done =>
          /\ result = "BusWriteError" <=>
               (Len(log) > 0 /\ log[Len(log)].res = "err")
          /\ result = "Ok" => AllOk(log)
          /\ ~AllOk(log) => result = "BusWriteError"

C4_Witness ==
  /\ Done /\ op = "send_data" /\ result = "BusWriteError"
  /\ Len(payload) > 2 * 16
  /\ Len(log) = 2 /\ log[1].res = "ok" /\ log[2].res = "err"

\* C5: for send_commands and for send_data, a payload that is neither a
\* contiguous buffer nor a lazy byte sequence issues no bus write and the
\* call returns DataFormatNotImplemented.
C5_UnsupportedFormat ==
  (op \in {"send_commands", "send_data"} /\ fmt = "Other") =>
     /\ pc = "idle"
     /\ log = <<>>
     /\ result = "DataFormatNotImplemented"

C5_Witness ==
  /\ Done /\ op = "send_data" /\ fmt = "Other" /\ Len(payload) > 0
  /\ log = <<>> /\ result = "DataFormatNotImplemented"

\* C6: send_commands on a lazy byte sequence, whatever it yields, issues no
\* bus write and returns DataFormatNotImplemented.
C6_CommandsLazyRejected ==
  (op = "send_commands" /\ fmt = "U8Iter") =>
     /\ pc = "idle"
     /\ log = <<>>
     /\ result = "DataFormatNotImplemented"

C6_Witness ==
  /\ Done /\ op = "send_commands" /\ fmt = "U8Iter"
  /\ Len(payload) > 0 /\ Len(payload) <= 7
  /\ log = <<>> /\ result = "DataFormatNotImplemented"

\* C7: every bus write issued starts with the prefix of its kind: 0x00 when
\* issued by send_commands, data_byte when issued by send_data (every chunk).
C7_PrefixByte ==
  \A k \in 1..Len(log) :
     /\ Len(log[k].bytes) >= 1
     /\ log[k].bytes[1] = IF op = "send_commands" THEN 0 ELSE data_byte

C7_Witness ==
  /\ op = "send_data" /\ Len(log) = 3
  /\ log[3].bytes[1] = data_byte /\ data_byte # 0

\* C8: send_data on a lazy sequence whose length n is a positive multiple of
\* 16 returns Ok after exactly n/16 writes, each of 17 bytes.
C8_LazyMultipleOf16 ==
  (Ended /\ op = "send_data" /\ fmt = "U8Iter" /\ NoErr(log)
     /\ Len(payload) > 0 /\ Len(payload) % 16 = 0) =>
     /\ result = "Ok"
     /\ Len(log) = Len(payload) \div 16
     /\ \A k \in 1..Len(log) : Len(log[k].bytes) = 17

\* C9: send_data on a lazy sequence of length n, 1 <= n <= 15, issues exactly
\* one write: the prefix byte followed by exactly the n bytes (length n + 1).
C9_LazyShort ==
  (Ended /\ op = "send_data" /\ fmt = "U8Iter"
     /\ Len(payload) >= 1 /\ Len(payload) <= 15) =>
     /\ Len(log) = 1
     /\ log[1].bytes = <<data_byte>> \o payload

\* C10: send_data on an empty payload, as an empty buffer or as a lazy
\* sequence that yields nothing, issues no bus write and returns Ok.
C10_EmptyPayload ==
  (op = "send_data" /\ fmt \in {"U8", "U8Iter"} /\ payload = <<>>) =>
     /\ log = <<>>
     /\ pc \in {"idle", "iter_loop"}
     /\ Done => result = "Ok"

C10_Witness ==
  /\ Done /\ op = "send_data" /\ fmt = "U8Iter" /\ payload = <<>>
  /\ log = <<>> /\ result = "Ok"

\* C11: on the buffer path every write is the prefix followed by exactly its
\* chunk, of length 1 + len(chunk): bytes a longer, earlier chunk left in the
\* reused frame buffer are never written.
C11_BufferWriteLength ==
  (op = "send_data" /\ fmt = "U8") =>
     \A k \in 1..Len(log) :
        LET c == Chunk(payload, (k - 1) * 16) IN
        /\ Len(log[k].bytes) = 1 + Len(c)
        /\ log[k].bytes = <<data_byte>> \o c

\* the third write carries a 1-byte chunk while writebuf still holds the
\* second byte of the chunk before it
C11_Witness ==
  /\ pc = "u8_await" /\ op = "send_data" /\ fmt = "U8"
  /\ Len(log) = 3 /\ Len(log[3].bytes) = 2
  /\ writebuf[2] = payload[18]
  /\ writebuf[2] # 0

AwaitPcs == {"cmd_await", "u8_await", "iter_await_full", "iter_await_flush"}

\* C12: never two bus writes outstanding at once: only the last write issued
\* can be unanswered, and then the call is suspended on it; every write
\* issued before another one has been answered with success.
C12_Sequential ==
  /\ \A k \in 1..Len(log) :
        log[k].res = "pending" => (k = Len(log) /\ pc \in AwaitPcs)
  /\ \A k \in 1..(Len(log) - 1) : log[k].res = "ok"
  /\ pc \in AwaitPcs => (Len(log) > 0 /\ log[Len(log)].res = "pending")

C12_Witness ==
  /\ pc = "u8_await" /\ Len(log) = 3
  /\ log[1].res = "ok" /\ log[2].res = "ok" /\ log[3].res = "pending"

\* the frames a freshly constructed adapter with data byte db issues on the
\* call o(f(bytes)) when every write succeeds
FreshFrames(o, f, bytes, db) ==
  IF o = "send_commands"
    THEN IF f = "U8" /\ Len(bytes) <= 7 THEN << <<0>> \o bytes >> ELSE <<>>
    ELSE IF f = "U8" THEN ChunkFrames(bytes, db)
    ELSE IF f = "U8Iter" /\ Len(bytes) >= 1 /\ Len(bytes) <= 15
           THEN << (<<db>> \o bytes) \o <<0>> >>
           ELSE <<>>

\* C13: after any sequence of calls, whatever their outcomes, addr and
\* data_byte are the values given to new, no frame contents or fill index
\* are left over between calls, and the writes of a call are those a freshly
\* constructed adapter issues on the same call.
C13_NoCarryOver ==
  /\ addr = ctor.addr
  /\ data_byte = ctor.data_byte
  /\ pc = "idle" => (writebuf = NoBuf /\ i = 0)
  /\ op # "none" =>
       LET fresh == FreshFrames(op, fmt, payload, ctor.data_byte) IN
       /\ Len(log) <= Len(fresh)
       /\ Frames(log) = SubSeq(fresh, 1, Len(log))

\* a lazy call that follows a failed call
C13_Witness ==
  /\ Done /\ prev = "BusWriteError"
  /\ op = "send_data" /\ fmt = "U8Iter" /\ result = "Ok"
  /\ Len(log) = 1 /\ Len(payload) = 3
  /\ addr = ctor.addr /\ data_byte = ctor.data_byte

\* C14: every bus write, of any call in any sequence of calls, is addressed
\* to the device address that was passed to new.
C14_WriteAddress ==
  \A k \in 1..Len(log) : log[k].addr = ctor.addr

C14_Witness ==
  /\ prev \in {"Ok", "BusWriteError"}
  /\ op = "send_data" /\ fmt = "U8Iter"
  /\ Len(log) = 1 /\ log[1].addr = ctor.addr

\* C15: on the lazy path no index or range is out of bounds of the 17-byte
\* frame buffer: the call never panics, the fill index is within 1..16 when
\* a byte is stored, and every issued write has between 2 and 17 bytes.
C15_LazyInBounds ==
  (op = "send_data" /\ fmt = "U8Iter") =>
     /\ result # "panic"
     /\ pc = "iter_loop" => (i >= 1 /\ i <= 16)
     /\ \A k \in 1..Len(log) :
          Len(log[k].bytes) >= 2 /\ Len(log[k].bytes) <= 17

\* C16: send_commands on a contiguous payload of more than 7 bytes panics on
\* the bounds of the 8-byte frame buffer without issuing any bus write.
C16_LongCommandNoWrite ==
  (op = "send_commands" /\ fmt = "U8" /\ Len(payload) > 7) =>
     /\ pc = "panicked"
     /\ result = "panic"
     /\ log = <<>>

C16_Witness ==
  /\ pc = "panicked" /\ op = "send_commands" /\ fmt = "U8"
  /\ Len(payload) = 8 /\ log = <<>>

====
